---- MODULE Spec2Model ----
(***************************************************************************)
(* TrackMate "simple" XML -> per-file track tables -> consolidated table.  *)
(* Four scripts are modelled:                                              *)
(*   tracking_analysis.py       parse_single_xml, out_path_for, main       *)
(*   summary.py                 process_xml, aggregate_summaries, main     *)
(*   tracking_dataset_final.py  main                                       *)
(*   analysis_summary.py        summarize_csv_one, main                    *)
(* File names and attribute texts are strings; speeds are IEEE 754 binary64 *)
(* values, computed digit for digit.  The platform is POSIX: names compare *)
(* and match with regard to case.                                          *)
(***************************************************************************)
EXTENDS Integers, Sequences, FiniteSets, TLC

VARIABLES xml, disk, ret, pc, queue, done, skipped, log, out

vars == <<xml, disk, ret, pc, queue, done, skipped, log, out>>

-----------------------------------------------------------------------------
(* Bounds *)

\* Largest number of Track elements in one XML document, when a routine is
\* applied to a single document.
MaxTracks == 2

\* Largest number of Track elements in an XML document of a folder on which
\* whole runs are made.
MaxFolderTracks == 1

-----------------------------------------------------------------------------
(* Strings *)

\* The characters of names and attribute texts: printable ASCII but the
\* backquote, which a string of the model cannot hold, in
\* code-point order.
Alphabet == " !\"#$%&'()*+,-./0123456789:;<=>?@ABCDEFGHIJKLMNOPQRSTUVWXYZ[\\]^_abcdefghijklmnopqrstuvwxyz{|}~"

Ch(s, i) == SubSeq(s, i, i)

Ord(c) == CHOOSE i \in 1..Len(Alphabet) : Ch(Alphabet, i) = c

Min(a, b) == IF a <= b THEN a ELSE b

Max(a, b) == IF a >= b THEN a ELSE b

\* Python's str < str : by code point, a proper prefix is smaller.
StrLess(a, b) ==
    \E i \in 1..(Min(Len(a), Len(b)) + 1) :
        /\ \A j \in 1..(i - 1) : Ch(a, j) = Ch(b, j)
        /\ \/ (i = Len(a) + 1 /\ i <= Len(b))
           \/ (i <= Len(a) /\ i <= Len(b) /\ Ord(Ch(a, i)) < Ord(Ch(b, i)))

StartsWith(s, p) == Len(s) >= Len(p) /\ SubSeq(s, 1, Len(p)) = p

EndsWith(s, p) == Len(s) >= Len(p) /\ SubSeq(s, Len(s) - Len(p) + 1, Len(s)) = p

\* str.find(old), 1-based, 0 if old does not occur
PyFind(s, old) ==
    LET I == {i \in 1..(Len(s) - Len(old) + 1) : SubSeq(s, i, i + Len(old) - 1) = old}
    IN  IF I = {} THEN 0 ELSE CHOOSE i \in I : \A j \in I : i <= j

\* str.replace(old, ""), for a non-empty old: every non-overlapping
\* occurrence, left to right.
RECURSIVE PyRemoveAll(_, _)
PyRemoveAll(s, old) ==
    LET i == PyFind(s, old)
    IN  IF i = 0 THEN s
        ELSE SubSeq(s, 1, i - 1) \o PyRemoveAll(SubSeq(s, i + Len(old), Len(s)), old)

\* name.rfind("."), 1-based, 0 if there is no "."
LastDot(s) ==
    LET I == {i \in 1..Len(s) : Ch(s, i) = "."}
    IN  IF I = {} THEN 0 ELSE CHOOSE i \in I : \A j \in I : j <= i

\* Path(name).stem: the name up to its last ".", unless that "." is the
\* first or the last character of the name.
PathStem(name) ==
    LET i == LastDot(name)
    IN  IF 1 < i /\ i < Len(name) THEN SubSeq(name, 1, i - 1) ELSE name

\* os.path.splitext(name)[0]: the name up to its last ".", unless only "."
\* characters come before it.
SplitExtRoot(name) ==
    LET i == LastDot(name)
    IN  IF i > 0 /\ \E j \in 1..(i - 1) : Ch(name, j) # "."
        THEN SubSeq(name, 1, i - 1) ELSE name

\* Path.glob("*<tail>"): the names that end in tail
PathGlob(names, tail) == {n \in names : EndsWith(n, tail)}

\* glob.glob("*<tail>"): the same, but "*" matches no name that begins
\* with "."
GlobGlob(names, tail) == {n \in names : EndsWith(n, tail) /\ ~StartsWith(n, ".")}

\* sorted(...) of a set of strings
RECURSIVE SortedSeq(_)
SortedSeq(S) ==
    IF S = {} THEN <<>>
    ELSE LET m == CHOOSE x \in S : \A y \in S \ {x} : StrLess(x, y)
         IN  <<m>> \o SortedSeq(S \ {m})

\* every order in which a set can be listed
Orders(S) == {q \in [1..Cardinality(S) -> S] : \A i, j \in DOMAIN q : i # j => q[i] # q[j]}

\* s without the characters c at its beginning, at its end
DropLeading(s, c) ==
    LET I == {i \in 1..Len(s) : Ch(s, i) # c}
    IN  IF I = {} THEN "" ELSE SubSeq(s, CHOOSE i \in I : \A j \in I : i <= j, Len(s))

DropTrailing(s, c) ==
    LET I == {i \in 1..Len(s) : Ch(s, i) # c}
    IN  IF I = {} THEN "" ELSE SubSeq(s, 1, CHOOSE i \in I : \A j \in I : j <= i)

\* str.strip(), of the blank
PyStrip(s) == DropTrailing(DropLeading(s, " "), " ")

-----------------------------------------------------------------------------
(* Natural numbers of any size: the limbs in base 2^15, the lowest first, *)
(* the highest not 0; <<>> is 0.                                           *)

LimbBits == 15

Base == 32768

Limb(a, i) == IF i <= Len(a) THEN a[i] ELSE 0

\* the largest member of a set of positions, 0 if there is none
LastOf(I) == IF I = {} THEN 0 ELSE CHOOSE i \in I : \A j \in I : j <= i

\* a without its high limbs that are 0
BNorm(a) == SubSeq(a, 1, LastOf({i \in 1..Len(a) : a[i] # 0}))

RECURSIVE BFromInt(_)
BFromInt(n) == IF n = 0 THEN <<>> ELSE <<n % Base>> \o BFromInt(n \div Base)

\* The n limbs of a + b + c from limb i on, then the carry out; by halves.
RECURSIVE AddLimbs(_, _, _, _, _)
AddLimbs(a, b, i, n, c) ==
    IF n = 1
    THEN <<(Limb(a, i) + Limb(b, i) + c) % Base, (Limb(a, i) + Limb(b, i) + c) \div Base>>
    ELSE LET lo == AddLimbs(a, b, i, n \div 2, c)
         IN  SubSeq(lo, 1, n \div 2)
                \o AddLimbs(a, b, i + n \div 2, n - n \div 2, lo[n \div 2 + 1])

BAdd(a, b) ==
    IF a = <<>> THEN b
    ELSE IF b = <<>> THEN a
    ELSE BNorm(AddLimbs(a, b, 1, Max(Len(a), Len(b)), 0))

\* The n limbs of a - b - c from limb i on, then the borrow out; by halves.
RECURSIVE SubLimbs(_, _, _, _, _)
SubLimbs(a, b, i, n, c) ==
    IF n = 1
    THEN <<(Limb(a, i) - Limb(b, i) - c + Base) % Base,
           IF Limb(a, i) - Limb(b, i) - c < 0 THEN 1 ELSE 0>>
    ELSE LET lo == SubLimbs(a, b, i, n \div 2, c)
         IN  SubSeq(lo, 1, n \div 2)
                \o SubLimbs(a, b, i + n \div 2, n - n \div 2, lo[n \div 2 + 1])

\* a - b, for a >= b
BSub(a, b) == IF b = <<>> THEN a ELSE BNorm(SubSeq(SubLimbs(a, b, 1, Len(a), 0), 1, Len(a)))

BLess(a, b) ==
    IF Len(a) # Len(b) THEN Len(a) < Len(b)
    ELSE \E i \in 1..Len(a) : a[i] < b[i] /\ \A j \in (i + 1)..Len(a) : a[j] = b[j]

\* The n limbs of a * k + c from limb i on, then the carry out; by halves.
RECURSIVE MulLimbs(_, _, _, _, _)
MulLimbs(a, k, i, n, c) ==
    IF n = 1
    THEN <<(a[i] * k + c) % Base, (a[i] * k + c) \div Base>>
    ELSE LET lo == MulLimbs(a, k, i, n \div 2, c)
         IN  SubSeq(lo, 1, n \div 2)
                \o MulLimbs(a, k, i + n \div 2, n - n \div 2, lo[n \div 2 + 1])

\* a * k, for 0 <= k < Base
BMulSmall(a, k) == IF a = <<>> \/ k = 0 THEN <<>> ELSE BNorm(MulLimbs(a, k, 1, Len(a), 0))

\* a * 2^n
BShl(a, n) ==
    IF a = <<>> THEN a
    ELSE [i \in 1..(n \div LimbBits) |-> 0] \o BMulSmall(a, 2^(n % LimbBits))

\* floor(a / 2^n)
BShr(a, n) ==
    IF n \div LimbBits >= Len(a) THEN <<>>
    ELSE BNorm([i \in 1..(Len(a) - n \div LimbBits) |->
                  (a[i + n \div LimbBits] \div 2^(n % LimbBits))
                  + (Limb(a, i + n \div LimbBits + 1) % 2^(n % LimbBits))
                        * 2^(LimbBits - (n % LimbBits))])

\* a mod 2^n
BLowBits(a, n) ==
    BNorm([i \in 1..Min(Len(a), n \div LimbBits + 1) |->
             IF i <= n \div LimbBits THEN a[i] ELSE a[i] % 2^(n % LimbBits)])

RECURSIVE IntBitLen(_)
IntBitLen(n) == IF n = 0 THEN 0 ELSE 1 + IntBitLen(n \div 2)

\* the number of binary digits of a
BitLen(a) == IF a = <<>> THEN 0 ELSE LimbBits * (Len(a) - 1) + IntBitLen(a[Len(a)])

RECURSIVE IntTz(_)
IntTz(n) == IF n % 2 = 1 THEN 0 ELSE 1 + IntTz(n \div 2)

\* the number of 0 binary digits at the low end of a, for a > 0
BTz(a) ==
    LET i == CHOOSE k \in 1..Len(a) : a[k] # 0 /\ \A j \in 1..(k - 1) : a[j] = 0
    IN  LimbBits * (i - 1) + IntTz(a[i])

\* the quotient qh * 2^lo + low[1] and the remainder low[2]
DivJoin(qh, lo, low) == <<BAdd(BShl(qh, lo), low[1]), low[2]>>

\* <<floor(p / q), p mod q>>, for q > 0 and p < q * 2^nb: long division, the
\* high digits of the quotient first (hi), then the lo low ones from what
\* is left
RECURSIVE DivBits(_, _, _), DivLow(_, _, _, _)
DivBits(p, q, nb) ==
    IF nb = 1
    THEN IF BLess(p, q) THEN <<<<>>, p>> ELSE <<<<1>>, BSub(p, q)>>
    ELSE DivLow(p, q, nb \div 2, DivBits(BShr(p, nb \div 2), q, nb - nb \div 2))

DivLow(p, q, lo, hi) ==
    DivJoin(hi[1], lo, DivBits(BAdd(BShl(hi[2], lo), BLowBits(p, lo)), q, lo))

\* <<floor(p / q), p mod q>>, for q > 0
BDivMod(p, q) ==
    IF q = <<1>> THEN <<p, <<>>>>
    ELSE IF BLess(p, q) THEN <<<<>>, p>>
    ELSE DivBits(p, q, BitLen(p) - BitLen(q) + 1)

\* a * b, by halves of b
RECURSIVE BMul(_, _)
BMul(a, b) ==
    IF a = <<>> \/ b = <<>> THEN <<>>
    ELSE IF Len(b) = 1 THEN BMulSmall(a, b[1])
    ELSE BAdd(BMul(a, BNorm(SubSeq(b, 1, Len(b) \div 2))),
              [i \in 1..(Len(b) \div 2) |-> 0] \o BMul(a, SubSeq(b, Len(b) \div 2 + 1, Len(b))))

\* 10^k, by squaring
RECURSIVE BPow10(_)
BPow10(k) ==
    IF k = 0 THEN <<1>>
    ELSE IF k % 2 = 1 THEN BMulSmall(BPow10(k - 1), 10)
    ELSE BMul(BPow10(k \div 2), BPow10(k \div 2))

-----------------------------------------------------------------------------
(* float: IEEE 754 binary64.  A value is nan, an infinity, 0, or s * m * 2^e *)
(* with m odd.  The sign of a zero is not kept: == does not tell -0.0 from   *)
(* 0.0.  pd.NA, the null marker, has the same shape so that cells compare.   *)

MantBits == 53

\* the exponent of the smallest subnormal, 2^-1074
MinExp == -1074

\* 2^1024 and above is out of range
MaxBitLen == 1024

NaN == [k |-> "nan", s |-> 1, m |-> <<>>, e |-> 0]

NA == [k |-> "na", s |-> 1, m |-> <<>>, e |-> 0]

Zero == [k |-> "num", s |-> 1, m |-> <<>>, e |-> 0]

Inf(s) == [k |-> "inf", s |-> s, m |-> <<>>, e |-> 0]

IsNaN(x) == x.k = "nan"

\* s * m * 2^e for m > 0 within range, with the 0 digits of m moved into e
Canon(s, m, e) == [k |-> "num", s |-> s, m |-> BShr(m, BTz(m)), e |-> e + BTz(m)]

\* floor(log2(n / d)), for n, d > 0
FloorLog2(n, d) ==
    LET t == BitLen(n) - BitLen(d)
    IN  IF BLess(BShl(n, Max(-t, 0)), BShl(d, Max(t, 0))) THEN t - 1 ELSE t

\* s * mm * 2^ex as a float: 0, an infinity from 2^1024, or the value
RoundDone(s, mm, ex) ==
    IF mm = <<>> THEN Zero
    ELSE IF BitLen(mm) + ex > MaxBitLen THEN Inf(s)
    ELSE Canon(s, mm, ex)

\* s * q * 2^ex for the division h = <<quotient, remainder>> by den, with q
\* the quotient or the next integer, whichever is nearer, the even one of
\* the two in a tie
RoundQuot(s, h, den, ex) ==
    LET r2 == BAdd(h[2], h[2])
    IN  RoundDone(s,
                  IF BLess(den, r2) \/ (r2 = den /\ h[1] # <<>> /\ h[1][1] % 2 = 1)
                  THEN BAdd(h[1], <<1>>) ELSE h[1],
                  ex)

\* The float nearest to s * (n / d) * 2^ee whose last mantissa digit has the
\* weight 2^ex
RoundAt(s, n, d, ee, ex) ==
    RoundQuot(s, BDivMod(BShl(n, Max(ee - ex, 0)), BShl(d, Max(ex - ee, 0))),
              BShl(d, Max(ex - ee, 0)), ex)

\* The float nearest to s * (n / d) * 2^ee, for n > 0 and d odd: 53 digits
\* of mantissa, fewer below 2^-1022
RoundOdd(s, n, d, ee) == RoundAt(s, n, d, ee, Max(FloorLog2(n, d) - (MantBits - 1) + ee, MinExp))

\* The float nearest to s * (n / d) * 2^e0, ties to the even mantissa:
\* 53 digits of mantissa, fewer below 2^-1022, an infinity from 2^1024.
\* The low 0 digits of d go into the exponent.
RoundFloat(s, n, d, e0) ==
    IF n = <<>> THEN Zero ELSE RoundOdd(s, n, BShr(d, BTz(d)), e0 - BTz(d))

\* float(n) of an int
FromInt(n) == IF n = 0 THEN Zero ELSE Canon(IF n < 0 THEN -1 ELSE 1, BFromInt(IF n < 0 THEN -n ELSE n), 0)

\* sa * a * 2^e + sb * b * 2^e
AddAligned(sa, a, sb, b, e) ==
    RoundFloat(IF sa = sb \/ ~BLess(a, b) THEN sa ELSE sb,
               IF sa = sb THEN BAdd(a, b) ELSE IF BLess(a, b) THEN BSub(b, a) ELSE BSub(a, b),
               <<1>>, e)

\* x + y
FloatAdd(x, y) ==
    IF IsNaN(x) \/ IsNaN(y) THEN NaN
    ELSE IF x.k = "inf" THEN (IF y.k = "inf" /\ y.s # x.s THEN NaN ELSE x)
    ELSE IF y.k = "inf" THEN y
    ELSE IF x.m = <<>> THEN y
    ELSE IF y.m = <<>> THEN x
    ELSE AddAligned(x.s, BShl(x.m, x.e - Min(x.e, y.e)),
                    y.s, BShl(y.m, y.e - Min(x.e, y.e)), Min(x.e, y.e))

\* x / n for a count n > 0
FloatDivCount(x, n) ==
    IF x.k # "num" THEN x
    ELSE RoundFloat(x.s, x.m, BFromInt(n), x.e)

RECURSIVE IntSum(_)
IntSum(q) == IF q = <<>> THEN 0 ELSE Head(q) + IntSum(Tail(q))

\* The additions of a sum, in the order in which they are made: a value, or
\* the sum of two such.
Leaf(x) == [leaf |-> TRUE, v |-> x]

Plus(a, b) == [leaf |-> FALSE, l |-> a, r |-> b]

RECURSIVE EvalSum(_)
EvalSum(t) == IF t.leaf THEN t.v ELSE FloatAdd(EvalSum(t.l), EvalSum(t.r))

\* res += a[i] for the values of q, in order
RECURSIVE AddInOrder(_, _)
AddInOrder(res, q) == IF q = <<>> THEN res ELSE AddInOrder(Plus(res, Leaf(Head(q))), Tail(q))

\* the eight running sums of numpy's pairwise summation over the blocks of
\* eight of the first whole values: sum j takes q[j], q[j + 8], q[j + 16], ...
Blocks8(q, whole) ==
    [j \in 1..8 |->
        AddInOrder(Leaf(q[j]), [i \in 1..((whole \div 8) - 1) |-> q[j + 8 * i]])]

\* the eight running sums, by pairs
SumOf8(r) ==
    Plus(Plus(Plus(r[1], r[2]), Plus(r[3], r[4])), Plus(Plus(r[5], r[6]), Plus(r[7], r[8])))

\* numpy's pairwise summation of a float array: in order below eight
\* elements, eight running sums up to 128, two halves above
RECURSIVE PairwisePlan(_)
PairwisePlan(q) ==
    IF Len(q) < 8 THEN AddInOrder(Leaf(Zero), q)
    ELSE IF Len(q) <= 128
    THEN AddInOrder(SumOf8(Blocks8(q, Len(q) - (Len(q) % 8))),
                    SubSeq(q, Len(q) - (Len(q) % 8) + 1, Len(q)))
    ELSE Plus(PairwisePlan(SubSeq(q, 1, (Len(q) \div 2) - ((Len(q) \div 2) % 8))),
              PairwisePlan(SubSeq(q, (Len(q) \div 2) - ((Len(q) \div 2) % 8) + 1, Len(q))))

PairwiseSum(q) == EvalSum(PairwisePlan(q))

NotNaN(x) == ~IsNaN(x)

\* the values with 0 in place of each nan
FillNaN(q) == [i \in 1..Len(q) |-> IF IsNaN(q[i]) THEN Zero ELSE q[i]]

\* Series.mean() of a float column: nan counts as missing (skipna); the sum
\* of the values with 0 in place of each nan, over the number of values
\* that are not nan; nan when there is none
SeriesMean(q) ==
    IF SelectSeq(q, NotNaN) = <<>> THEN NaN
    ELSE FloatDivCount(PairwiseSum(FillNaN(q)), Len(SelectSeq(q, NotNaN)))

-----------------------------------------------------------------------------
(* int(text) and float(text) *)

IsDigit(c) == \E i \in 1..10 : Ch("0123456789", i) = c

DigitVal(c) == (CHOOSE i \in 1..10 : Ch("0123456789", i) = c) - 1

AllDigits(s) == Len(s) > 0 /\ \A i \in 1..Len(s) : IsDigit(Ch(s, i))

\* the value of a run of digits that is within the integers of the model
RECURSIVE DigitsVal(_)
DigitsVal(s) ==
    IF Len(s) = 0 THEN 0
    ELSE 10 * DigitsVal(SubSeq(s, 1, Len(s) - 1)) + DigitVal(Ch(s, Len(s)))

\* the value of a run of digits of any length, by halves
RECURSIVE BDigitsVal(_)
BDigitsVal(s) ==
    IF Len(s) <= 4 THEN BFromInt(DigitsVal(s))
    ELSE BAdd(BMul(BDigitsVal(SubSeq(s, 1, Len(s) \div 2)), BPow10(Len(s) - Len(s) \div 2)),
              BDigitsVal(SubSeq(s, Len(s) \div 2 + 1, Len(s))))

\* a "_" is allowed between two digits only
UnderscoresOk(s) ==
    \A i \in 1..Len(s) :
        Ch(s, i) = "_" => (1 < i /\ i < Len(s) /\ IsDigit(Ch(s, i - 1)) /\ IsDigit(Ch(s, i + 1)))

\* a text without its sign
Unsigned(s) == IF StartsWith(s, "-") \/ StartsWith(s, "+") THEN Tail(s) ELSE s

Sign(s) == IF StartsWith(s, "-") THEN -1 ELSE 1

\* sys.int_info.default_max_str_digits: the most digits int(text) converts
MaxStrDigits == 4300

\* int(text): blanks around, a sign, digits with single "_" between them,
\* at most MaxStrDigits digits (leading zeros counted, "_" not); anything
\* else raises ValueError.
PyIntOk(x) ==
    /\ UnderscoresOk(Unsigned(PyStrip(x)))
    /\ AllDigits(PyRemoveAll(Unsigned(PyStrip(x)), "_"))
    /\ Len(PyRemoveAll(Unsigned(PyStrip(x)), "_")) <= MaxStrDigits

\* the value, for a text whose value is within the integers of the model
PyInt(x) == Sign(PyStrip(x)) * DigitsVal(PyRemoveAll(Unsigned(PyStrip(x)), "_"))

DotAt(s) == {i \in 1..Len(s) : Ch(s, i) = "."}

ExpAt(s) == {i \in 1..Len(s) : Ch(s, i) = "e" \/ Ch(s, i) = "E"}

\* the text of a float without blanks, "_" and sign
FloatBody(x) == Unsigned(PyRemoveAll(PyStrip(x), "_"))

\* u is the word, its letters in either case
CaseMatch(u, lower, upper) ==
    Len(u) = Len(lower) /\ \A i \in 1..Len(u) : Ch(u, i) = Ch(lower, i) \/ Ch(u, i) = Ch(upper, i)

IsInfText(u) == CaseMatch(u, "inf", "INF") \/ CaseMatch(u, "infinity", "INFINITY")

IsNanText(u) == CaseMatch(u, "nan", "NAN")

\* the digits before the exponent mark, and the exponent after it
MantText(u) == IF ExpAt(u) = {} THEN u ELSE SubSeq(u, 1, (CHOOSE i \in ExpAt(u) : TRUE) - 1)

ExpText(u) == IF ExpAt(u) = {} THEN "0" ELSE SubSeq(u, (CHOOSE i \in ExpAt(u) : TRUE) + 1, Len(u))

\* digits with at most one "." among them, then at most one exponent
IsDecimalText(u) ==
    /\ Cardinality(ExpAt(u)) <= 1
    /\ Cardinality(DotAt(MantText(u))) <= 1
    /\ AllDigits(PyRemoveAll(MantText(u), "."))
    /\ AllDigits(Unsigned(ExpText(u)))

\* float(text): blanks around, a sign, then inf, infinity or nan in any
\* case, or digits with at most one "." and an exponent; single "_" between
\* digits; anything else raises ValueError.
PyFloatOk(x) ==
    /\ UnderscoresOk(PyStrip(x))
    /\ \/ IsInfText(FloatBody(x))
       \/ IsNanText(FloatBody(x))
       \/ IsDecimalText(FloatBody(x))

\* an exponent of more than eight digits is as good as this one
HugeExp == 99999999

\* 10^309 and above is an infinity, below 10^-324 is 0
MaxDecimalExp == 309

MinDecimalExp == -324

\* the exponent of an exponent text
DecimalExp(et) ==
    LET t == DropLeading(Unsigned(et), "0")
    IN  Sign(et) * (IF Len(t) > 8 THEN HugeExp ELSE DigitsVal(t))

\* d * 10^k, where all is the digits without leading 0, nfrac of them after
\* the ".", d is all without its trailing 0 and ex the exponent
DecimalFrom(all, nfrac, ex) ==
    [d |-> DropTrailing(all, "0"),
     k |-> ex - nfrac + (Len(all) - Len(DropTrailing(all, "0")))]

\* the same from the mantissa text, whose "." is past its end when it has
\* none
DecimalParts(mant, ex) ==
    LET dot == IF DotAt(mant) = {} THEN Len(mant) + 1 ELSE CHOOSE i \in DotAt(mant) : TRUE
    IN  DecimalFrom(DropLeading(SubSeq(mant, 1, dot - 1) \o SubSeq(mant, dot + 1, Len(mant)), "0"),
                    Max(Len(mant) - dot, 0), ex)

\* the decimal digits d and the power k of a decimal text: it is d * 10^k,
\* d without 0 at either end
DecimalOf(u) == DecimalParts(MantText(u), DecimalExp(ExpText(u)))

\* the float nearest to s * dec.d * 10^dec.k: 0 without digits, out of
\* range by the number of digits alone, or rounded
FloatOfDecimal(s, dec) ==
    IF dec.d = "" THEN Zero
    ELSE IF Len(dec.d) + dec.k > MaxDecimalExp THEN Inf(s)
    ELSE IF Len(dec.d) + dec.k < MinDecimalExp THEN Zero
    ELSE RoundFloat(s,
                    IF dec.k >= 0 THEN BMul(BDigitsVal(dec.d), BPow10(dec.k))
                    ELSE BDigitsVal(dec.d),
                    IF dec.k >= 0 THEN <<1>> ELSE BPow10(-dec.k),
                    0)

\* the float nearest to the decimal text
PyFloat(x) ==
    IF IsNanText(FloatBody(x)) THEN NaN
    ELSE IF IsInfText(FloatBody(x)) THEN Inf(Sign(PyStrip(x)))
    ELSE FloatOfDecimal(Sign(PyStrip(x)), DecimalOf(FloatBody(x)))

-----------------------------------------------------------------------------
(* XML documents *)

\* Track elements, as attribute name -> attribute text.  NonMerging lacks
\* TRACK_MAX_SPEED, Bare has no attribute at all, BadTrack has a
\* NUMBER_MERGES text and BadSpeed a TRACK_MEAN_SPEED text that is no number;
\* NanSpeed is a merging track whose speeds are the text NaN, which float()
\* accepts.
NonMerging ==
    [TRACK_ID |-> "0", NUMBER_SPOTS |-> "5", NUMBER_MERGES |-> "0",
     TRACK_MEAN_SPEED |-> "0.1"]

Merging ==
    [TRACK_ID |-> "1", NUMBER_SPOTS |-> "8", NUMBER_MERGES |-> "2",
     TRACK_MEAN_SPEED |-> "0.3", TRACK_MAX_SPEED |-> "4.5"]

NanSpeed ==
    [TRACK_ID |-> "4", NUMBER_SPOTS |-> "1", NUMBER_MERGES |-> "1",
     TRACK_MEAN_SPEED |-> "NaN", TRACK_MAX_SPEED |-> "NaN"]

BadTrack ==
    [TRACK_ID |-> "2", NUMBER_SPOTS |-> "3", NUMBER_MERGES |-> "x",
     TRACK_MEAN_SPEED |-> "2.0", TRACK_MAX_SPEED |-> "2.5"]

Bare == [a \in {} |-> ""]

BadSpeed ==
    [TRACK_ID |-> "3", NUMBER_SPOTS |-> "4", NUMBER_MERGES |-> "1",
     TRACK_MEAN_SPEED |-> "fast", TRACK_MAX_SPEED |-> "2.5"]

TrackElems == {NonMerging, Merging, BadTrack, Bare, BadSpeed, NanSpeed}

FolderTrackElems == {NonMerging, Merging, BadTrack}

\* A document is malformed (ET.parse raises) or holds its Track elements in
\* document order, which is what root.findall(".//Track") returns.
Malformed == [wellformed |-> FALSE, tracks |-> <<>>]

DocOf(q) == [wellformed |-> TRUE, tracks |-> q]

Docs == {Malformed} \cup {DocOf(q) : q \in UNION {[1..k -> TrackElems] : k \in 0..MaxTracks}}

FolderDocs == {Malformed} \cup {DocOf(q) : q \in UNION {[1..k -> FolderTrackElems] : k \in 0..MaxFolderTracks}}

\* tr.get(name, default) followed by int(...) or float(...)
IntAttrOk(tr, name) == name \in DOMAIN tr => PyIntOk(tr[name])

IntAttr(tr, name, default) == IF name \in DOMAIN tr THEN PyInt(tr[name]) ELSE default

FloatAttrOk(tr, name) == name \in DOMAIN tr => PyFloatOk(tr[name])

FloatAttr(tr, name, default) == IF name \in DOMAIN tr THEN PyFloat(tr[name]) ELSE default

\* no coercion of the five attributes raises
TrackOk(tr) ==
    /\ IntAttrOk(tr, "NUMBER_MERGES")
    /\ IntAttrOk(tr, "TRACK_ID")
    /\ IntAttrOk(tr, "NUMBER_SPOTS")
    /\ FloatAttrOk(tr, "TRACK_MEAN_SPEED")
    /\ FloatAttrOk(tr, "TRACK_MAX_SPEED")

TrackRecord(tr) ==
    [track_id    |-> IntAttr(tr, "TRACK_ID", -1),
     n_spots     |-> IntAttr(tr, "NUMBER_SPOTS", 0),
     n_merges    |-> IntAttr(tr, "NUMBER_MERGES", 0),
     has_merging |-> IntAttr(tr, "NUMBER_MERGES", 0) > 0,
     mean_speed  |-> FloatAttr(tr, "TRACK_MEAN_SPEED", Zero),
     max_speed   |-> FloatAttr(tr, "TRACK_MAX_SPEED", Zero)]

Records(q) == [i \in 1..Len(q) |-> TrackRecord(q[i])]

Column(recs, c) == [i \in 1..Len(recs) |-> recs[i][c]]

IsMerging(r) == r.has_merging

NotMerging(r) == ~r.has_merging

SummaryCols ==
    <<"total_tracks", "total_merges", "avg_speed_all", "avg_speed_merging",
      "avg_speed_nonmerge">>

TrackCols == {"track_id", "n_spots", "n_merges", "has_merging", "mean_speed", "max_speed"}

Range(q) == {q[i] : i \in DOMAIN q}

\* df[name] = scalar on every row
Broadcast(recs, sm) ==
    [i \in 1..Len(recs) |->
        [c \in TrackCols \cup Range(SummaryCols) |->
            IF c \in TrackCols THEN recs[i][c] ELSE sm[c]]]

\* a DataFrame: its columns and its rows; pd.DataFrame() has neither
Frame(rows) == [cols |-> IF rows = <<>> THEN {} ELSE DOMAIN rows[1], rows |-> rows]

EmptyFrame == Frame(<<>>)

\* what a routine hands back: it raised, or it returned a frame
Raised == [raised |-> TRUE, frame |-> EmptyFrame]

Returned(f) == [raised |-> FALSE, frame |-> f]

-----------------------------------------------------------------------------
(* tracking_analysis.parse_single_xml *)

\* the summary with the mean taken over the subset even when it is empty
PSX_Summary_NoSentinel(recs) ==
    [total_tracks       |-> FromInt(Len(recs)),
     total_merges       |-> FromInt(IntSum(Column(recs, "n_merges"))),
     avg_speed_all      |-> SeriesMean(Column(recs, "mean_speed")),
     avg_speed_merging  |-> SeriesMean(Column(SelectSeq(recs, IsMerging), "mean_speed")),
     avg_speed_nonmerge |-> SeriesMean(Column(SelectSeq(recs, NotMerging), "mean_speed"))]

PSX_Summary(recs) ==
    [total_tracks       |-> FromInt(Len(recs)),
     total_merges       |-> FromInt(IntSum(Column(recs, "n_merges"))),
     avg_speed_all      |-> SeriesMean(Column(recs, "mean_speed")),
     avg_speed_merging  |->
        IF \E i \in DOMAIN recs : recs[i].has_merging
        THEN SeriesMean(Column(SelectSeq(recs, IsMerging), "mean_speed")) ELSE Zero,
     avg_speed_nonmerge |->
        IF \E i \in DOMAIN recs : ~recs[i].has_merging
        THEN SeriesMean(Column(SelectSeq(recs, NotMerging), "mean_speed")) ELSE Zero]

ParseSingleXml(doc) ==
    IF ~doc.wellformed THEN Returned(EmptyFrame)
    ELSE LET recs == Records(SelectSeq(doc.tracks, TrackOk)) IN
         IF recs = <<>> THEN Returned(EmptyFrame)
         ELSE Returned(Frame(Broadcast(recs, PSX_Summary(recs))))

-----------------------------------------------------------------------------
(* summary.process_xml, up to the frame it is about to write *)

PX_Summary(recs) ==
    [total_tracks       |-> FromInt(Len(recs)),
     total_merges       |-> FromInt(IntSum(Column(recs, "n_merges"))),
     avg_speed_all      |->
        IF Len(recs) > 0 THEN SeriesMean(Column(recs, "mean_speed")) ELSE Zero,
     avg_speed_merging  |->
        IF \E i \in DOMAIN recs : recs[i].has_merging
        THEN SeriesMean(Column(SelectSeq(recs, IsMerging), "mean_speed")) ELSE Zero,
     avg_speed_nonmerge |->
        IF \E i \in DOMAIN recs : ~recs[i].has_merging
        THEN SeriesMean(Column(SelectSeq(recs, NotMerging), "mean_speed")) ELSE Zero]

\* ET.parse raises on a malformed document, int()/float() raise out of the
\* loop, and df["n_merges"] raises KeyError on the column-less frame that
\* pd.DataFrame([]) is.
ProcessXml(doc) ==
    IF ~doc.wellformed THEN Raised
    ELSE IF \E i \in DOMAIN doc.tracks : ~TrackOk(doc.tracks[i]) THEN Raised
    ELSE LET recs == Records(doc.tracks) IN
         IF recs = <<>> THEN Raised
         ELSE Returned(Frame(Broadcast(recs, PX_Summary(recs))))

-----------------------------------------------------------------------------
(* tracking_dataset_final.main, up to the frame it is about to write *)

TDF_Summary(recs) ==
    [total_tracks       |-> FromInt(Len(recs)),
     total_merges       |-> FromInt(IntSum(Column(recs, "n_merges"))),
     avg_speed_all      |-> SeriesMean(Column(recs, "mean_speed")),
     avg_speed_merging  |->
        IF \E i \in DOMAIN recs : recs[i].has_merging
        THEN SeriesMean(Column(SelectSeq(recs, IsMerging), "mean_speed")) ELSE Zero,
     avg_speed_nonmerge |->
        IF \E i \in DOMAIN recs : ~recs[i].has_merging
        THEN SeriesMean(Column(SelectSeq(recs, NotMerging), "mean_speed")) ELSE Zero]

TdfFrame(doc) ==
    IF ~doc.wellformed THEN Raised
    ELSE IF \E i \in DOMAIN doc.tracks : ~TrackOk(doc.tracks[i]) THEN Raised
    ELSE LET recs == Records(doc.tracks) IN
         IF recs = <<>> THEN Raised
         ELSE Returned(Frame(Broadcast(recs, TDF_Summary(recs))))

-----------------------------------------------------------------------------
(* The folder *)

\* The files of a folder that hold XML documents.
XmlNames == {"A_summary2.xml", "B.xml"}

\* A file on disk: a CSV that read_csv reads back as the frame written, or a
\* zero-byte file, on which read_csv raises EmptyDataError.
CsvOf(f) == [readable |-> TRUE, cols |-> f.cols, rows |-> f.rows]

ZeroBytes == [readable |-> FALSE, cols |-> {}, rows |-> <<>>]

\* DataFrame.to_csv(path), DataFrame.to_excel(path): written; or open()
\* refused and the file is as it was; or opened, hence emptied, and the write
\* failed.  In the last two cases the call raises.
WriteOutcomes == {"ok", "denied", "emptied"}

ToCsv(d, path, f, w) ==
    IF w = "ok" THEN [n \in DOMAIN d \cup {path} |-> IF n = path THEN CsvOf(f) ELSE d[n]]
    ELSE IF w = "emptied" THEN [n \in DOMAIN d \cup {path} |-> IF n = path THEN ZeroBytes ELSE d[n]]
    ELSE d

\* Tables that other versions of the scripts left in the folder: one without
\* the avg_speed_nonmerge column, one with a header line and no data row.
FullFrame == ParseSingleXml(DocOf(<<NonMerging, Merging>>)).frame

DropColumn(f, c) ==
    [cols |-> f.cols \ {c},
     rows |-> [i \in 1..Len(f.rows) |-> [k \in f.cols \ {c} |-> f.rows[i][k]]]]

HeaderOnly(f) == [cols |-> f.cols, rows |-> <<>>]

NoFiles == [n \in {} |-> ZeroBytes]

LegacyFolder(f) ==
    [n \in {"old_analysis.csv", "old_summary.csv"} |-> CsvOf(f)]

InitDisks ==
    {NoFiles,
     LegacyFolder(DropColumn(FullFrame, "avg_speed_nonmerge")),
     LegacyFolder(HeaderOnly(FullFrame))}

NoLog == [prog |-> "none", res |-> [s \in {} |-> "none"]]

\* the script run most recently on the folder, and how far it got
NoOut == [prog |-> "none", status |-> "none"]

\* what a call of an extraction routine came to: whether it was made, whether
\* it raised before writing, the frame it built, whether its CSV was written
NotCalled == [called |-> FALSE, raised |-> FALSE, frame |-> EmptyFrame, saved |-> FALSE]

CallOf(r, saved) == [called |-> TRUE, raised |-> r.raised, frame |-> r.frame, saved |-> saved]

NoRet == [psx |-> NotCalled, px |-> NotCalled, tdf |-> NotCalled]

\* the routines on the documents of the model, computed once
PSX == [d \in Docs \cup FolderDocs |-> ParseSingleXml(d)]

PX == [d \in Docs \cup FolderDocs |-> ProcessXml(d)]

TDF == [d \in Docs \cup FolderDocs |-> TdfFrame(d)]

Logged(l, s, what) == [l EXCEPT !.res = [k \in DOMAIN l.res \cup {s} |-> IF k = s THEN what ELSE l.res[k]]]

-----------------------------------------------------------------------------
(* tracking_analysis.main *)

DEFAULT_NAME_SUFFIX == "_analysis"

\* out_path_for: <stem><suffix>.csv in the output folder
OutPathFor(xp, suffix) == PathStem(xp) \o suffix \o ".csv"

DEFAULT_GLOB_TAIL == ".xml"

\* collect_xml_paths: in_path.glob("*.xml")
CollectXmlPaths == PathGlob(DOMAIN xml, DEFAULT_GLOB_TAIL)

\* up to the loop: the XML files of the folder, sorted by their paths; no
\* file, no run
TA_Start ==
    /\ pc = "idle"
    /\ IF CollectXmlPaths = {}
       THEN UNCHANGED <<pc, queue, done, skipped, log>>
       ELSE /\ pc' = "ta_loop"
            /\ queue' = SortedSeq(CollectXmlPaths)
            /\ done' = 0
            /\ skipped' = 0
            /\ log' = [prog |-> "tracking_analysis", res |-> NoLog.res]
    /\ out' = [prog |-> "tracking_analysis",
               status |-> IF CollectXmlPaths = {} THEN "no_files" ELSE "running"]
    /\ UNCHANGED <<xml, disk, ret>>

\* one turn of the loop, with the failed save left out of the counts
TA_Step_Uncounted(w) ==
    /\ pc = "ta_loop"
    /\ queue # <<>>
    /\ LET xp == Head(queue)
           df_one == PSX[xml[xp]].frame
       IN  IF df_one.rows = <<>>
           THEN /\ skipped' = skipped + 1
                /\ log' = Logged(log, xp, "skipped")
                /\ UNCHANGED <<disk, done>>
           ELSE /\ disk' = ToCsv(disk, OutPathFor(xp, DEFAULT_NAME_SUFFIX), df_one, w)
                /\ IF w = "ok"
                   THEN /\ done' = done + 1
                        /\ log' = Logged(log, xp, "saved")
                        /\ UNCHANGED skipped
                   ELSE /\ log' = Logged(log, xp, "save_failed")
                        /\ UNCHANGED <<done, skipped>>
    /\ queue' = Tail(queue)
    /\ UNCHANGED <<xml, ret, pc, out>>

\* one turn of the loop
TA_Step(w) ==
    /\ pc = "ta_loop"
    /\ queue # <<>>
    /\ LET xp == Head(queue)
           df_one == PSX[xml[xp]].frame
       IN  IF df_one.rows = <<>>
           THEN /\ skipped' = skipped + 1
                /\ log' = Logged(log, xp, "skipped")
                /\ UNCHANGED <<disk, done>>
           ELSE /\ disk' = ToCsv(disk, OutPathFor(xp, DEFAULT_NAME_SUFFIX), df_one, w)
                /\ IF w = "ok"
                   THEN /\ done' = done + 1
                        /\ log' = Logged(log, xp, "saved")
                        /\ UNCHANGED skipped
                   ELSE /\ skipped' = skipped + 1
                        /\ log' = Logged(log, xp, "save_failed")
                        /\ UNCHANGED done
    /\ queue' = Tail(queue)
    /\ UNCHANGED <<xml, ret, pc, out>>

\* the loop is over: the counts are printed
TA_Finish ==
    /\ pc = "ta_loop"
    /\ queue = <<>>
    /\ pc' = "idle"
    /\ out' = [prog |-> "tracking_analysis", status |-> "finished"]
    /\ UNCHANGED <<xml, disk, ret, queue, done, skipped, log>>

-----------------------------------------------------------------------------
(* Consolidated rows *)

\* min-first ordering of rows by their filename; equal names keep their order
RECURSIVE SortByFilename(_)
SortByFilename(rows) ==
    IF rows = <<>> THEN <<>>
    ELSE LET i == CHOOSE k \in DOMAIN rows :
                    /\ \A j \in DOMAIN rows : ~StrLess(rows[j].filename, rows[k].filename)
                    /\ \A j \in 1..(k - 1) : rows[j].filename # rows[k].filename
         IN  <<rows[i]>> \o SortByFilename(SubSeq(rows, 1, i - 1) \o SubSeq(rows, i + 1, Len(rows)))

\* DataFrame.drop_duplicates(): the first of each run of equal rows is kept
RECURSIVE DropDuplicates(_)
DropDuplicates(rows) ==
    IF rows = <<>> THEN <<>>
    ELSE LET init == SubSeq(rows, 1, Len(rows) - 1)
             last == rows[Len(rows)]
         IN  IF \E i \in DOMAIN init : init[i] = last
             THEN DropDuplicates(init)
             ELSE Append(DropDuplicates(init), last)

OutCols == {"filename"} \cup Range(SummaryCols)

-----------------------------------------------------------------------------
(* analysis_summary *)

\* the other pattern the script's comment offers, "*.csv"
FILE_PATTERN_ANY_CSV == ".csv"

FILE_PATTERN_TAIL == "_analysis.csv"

OUT_CSV_NAME == "tracking_summary.csv"

\* the {} returned when the file cannot be read
EmptyDict == [k \in {} |-> NA]

SummarizeCsvOne(name, file) ==
    IF ~file.readable THEN EmptyDict
    ELSE LET sub == DropDuplicates(
                       [i \in 1..Len(file.rows) |->
                          [c \in Range(SummaryCols) |->
                             IF c \in file.cols THEN file.rows[i][c] ELSE NA]])
         IN  [c \in OutCols |->
                IF c = "filename" THEN PathStem(name)
                ELSE IF sub = <<>> THEN NA
                ELSE sub[1][c]]

AS_Files(d) == SortedSeq(PathGlob(DOMAIN d, FILE_PATTERN_TAIL))

AS_Records(d, files) ==
    LET recs == [i \in 1..Len(files) |-> SummarizeCsvOne(files[i], d[files[i]])]
        Kept(r) == DOMAIN r # {}
    IN  SelectSeq(recs, Kept)

\* main; w is how df_all.to_csv goes, which nothing catches: when it raises
\* the run ends there and tracking_summary.csv is as it was or has no bytes
AS_Main(w) ==
    /\ pc = "idle"
    /\ LET files == AS_Files(disk)
           records == AS_Records(disk, files)
       IN  IF files = <<>>
           THEN /\ out' = [prog |-> "analysis_summary", status |-> "no_files"]
                /\ UNCHANGED disk
           ELSE IF records = <<>>
           THEN /\ out' = [prog |-> "analysis_summary", status |-> "no_records"]
                /\ UNCHANGED disk
           ELSE /\ out' = [prog |-> "analysis_summary",
                           status |-> IF w = "ok" THEN "saved" ELSE "write_failed"]
                /\ disk' = ToCsv(disk, OUT_CSV_NAME,
                                 [cols |-> OutCols, rows |-> SortByFilename(records)], w)
    /\ UNCHANGED <<xml, ret, pc, queue, done, skipped, log>>

-----------------------------------------------------------------------------
(* summary.py *)

SUMMARY_TAIL == "_summary.csv"

EXCEL_NAME == "aggregated_summary.xlsx"

\* read_csv raises on an unreadable file, iloc[0] on a frame without rows,
\* and the column selection on a missing column
AggRaises(file) ==
    \/ ~file.readable
    \/ file.rows = <<>>
    \/ \E c \in Range(SummaryCols) : c \notin file.cols

AggBase(name) == PyRemoveAll(SplitExtRoot(name), "_summary")

AggRow(name, file) ==
    [c \in OutCols |-> IF c = "filename" THEN AggBase(name) ELSE file.rows[1][c]]

\* aggregate_summaries over the files in the order glob lists them: the
\* folder afterwards and how the call ended; wx is how df_agg.to_excel goes,
\* which nothing catches
AggregateSummaries(d, files, wx) ==
    IF files = <<>> THEN [disk |-> d, status |-> "no_files"]
    ELSE IF \E i \in DOMAIN files : AggRaises(d[files[i]])
    THEN [disk |-> d, status |-> "raised"]
    ELSE [disk |-> ToCsv(d, EXCEL_NAME,
                         [cols |-> OutCols,
                          rows |-> [i \in 1..Len(files) |-> AggRow(files[i], d[files[i]])]],
                         wx),
          status |-> IF wx = "ok" THEN "saved" ELSE "write_failed"]

\* glob.glob(os.path.join(folder, "*.xml"))
SM_XmlFiles == GlobGlob(DOMAIN xml, ".xml")

\* base + "_summary.csv"
SM_OutCsv(xml_path) == SplitExtRoot(xml_path) \o SUMMARY_TAIL

\* the loop of main over the XML files: the folder afterwards
RECURSIVE SM_Loop(_, _, _)
SM_Loop(d, xml_files, w) ==
    IF xml_files = <<>> THEN d
    ELSE LET xml_path == Head(xml_files)
             r == PX[xml[xml_path]]
         IN  SM_Loop(IF r.raised THEN d ELSE ToCsv(d, SM_OutCsv(xml_path), r.frame, w[xml_path]),
                     Tail(xml_files), w)

SM_Log(w) ==
    [prog |-> "summary",
     res |-> [s \in SM_XmlFiles |->
                IF PX[xml[s]].raised THEN "raised"
                ELSE IF w[s] = "ok" THEN "saved" ELSE "save_failed"]]

\* main: every XML file of the folder, then aggregate_summaries.  glob lists
\* files in no particular order; the loop's writes go to distinct files, so
\* only the order of the CSV files shows.
SM_Main(w, files, wx) ==
    /\ pc = "idle"
    /\ IF SM_XmlFiles = {}
       THEN /\ out' = [prog |-> "summary", status |-> "no_xml"]
            /\ UNCHANGED <<disk, log>>
       ELSE LET agg == AggregateSummaries(SM_Loop(disk, SortedSeq(SM_XmlFiles), w), files, wx) IN
              /\ disk' = agg.disk
              /\ log' = SM_Log(w)
              /\ out' = [prog |-> "summary", status |-> agg.status]
    /\ UNCHANGED <<xml, ret, pc, queue, done, skipped>>

SM_Run ==
    \E w \in [SM_XmlFiles -> WriteOutcomes] :
       \E files \in Orders(GlobGlob(DOMAIN SM_Loop(disk, SortedSeq(SM_XmlFiles), w), SUMMARY_TAIL)) :
          \E wx \in WriteOutcomes : SM_Main(w, files, wx)

-----------------------------------------------------------------------------
(* The routines applied to one document *)

Call_ParseSingleXml(s) ==
    /\ ret' = [ret EXCEPT !.psx = CallOf(PSX[xml[s]], FALSE)]
    /\ UNCHANGED <<xml, disk, pc, queue, done, skipped, log, out>>

\* process_xml(xml_path, out_csv), called as main calls it
Call_ProcessXml(s, w) ==
    /\ LET r == PX[xml[s]] IN
         /\ ret' = [ret EXCEPT !.px = CallOf(r, ~r.raised /\ w = "ok")]
         /\ disk' = IF r.raised THEN disk ELSE ToCsv(disk, SM_OutCsv(s), r.frame, w)
    /\ UNCHANGED <<xml, pc, queue, done, skipped, log, out>>

\* the -o of the usage text
TDF_OUT == "track_summary.csv"

\* tracking_dataset_final.main(xml_path, out_csv)
TDF_Main(s, w) ==
    /\ LET r == TDF[xml[s]] IN
         /\ ret' = [ret EXCEPT !.tdf = CallOf(r, ~r.raised /\ w = "ok")]
         /\ disk' = IF r.raised THEN disk ELSE ToCsv(disk, TDF_OUT, r.frame, w)
    /\ UNCHANGED <<xml, pc, queue, done, skipped, log, out>>

-----------------------------------------------------------------------------
(* Specifications *)

\* A folder of XML files, with or without tables of an older version.
Init ==
    /\ xml \in [XmlNames -> FolderDocs]
    /\ disk \in InitDisks
    /\ ret = NoRet
    /\ pc = "idle"
    /\ queue = <<>>
    /\ done = 0
    /\ skipped = 0
    /\ log = NoLog
    /\ out = NoOut

TA_Loop == \E w \in WriteOutcomes : TA_Step(w)

\* A folder of one XML file, with or without tables of an older version.
InitRuns ==
    /\ xml \in [{"B.xml"} -> FolderDocs]
    /\ disk \in InitDisks
    /\ ret = NoRet
    /\ pc = "idle"
    /\ queue = <<>>
    /\ done = 0
    /\ skipped = 0
    /\ log = NoLog
    /\ out = NoOut

\* tracking_analysis.py, analysis_summary.py and summary.py run on the
\* folder, one after another in any order
Next ==
    \/ TA_Start
    \/ TA_Loop
    \/ TA_Finish
    \/ \E w \in WriteOutcomes : AS_Main(w)
    \/ SM_Run

Spec == InitRuns /\ [][Next]_vars

\* tracking_analysis.py alone; a run that has started goes on to its end
NextBatch ==
    \/ TA_Start
    \/ TA_Loop
    \/ TA_Finish

SpecBatch == Init /\ [][NextBatch]_vars /\ WF_vars(TA_Loop) /\ WF_vars(TA_Finish)

\* summary.py run on the folder
NextSummary == SM_Run

SpecSummary == Init /\ [][NextSummary]_vars

\* the three extraction routines on one document
InitExtract ==
    /\ xml \in [{"B.xml"} -> Docs]
    /\ disk = NoFiles
    /\ ret = NoRet
    /\ pc = "idle"
    /\ queue = <<>>
    /\ done = 0
    /\ skipped = 0
    /\ log = NoLog
    /\ out = NoOut

NextExtract ==
    \/ \E s \in DOMAIN xml : Call_ParseSingleXml(s)
    \/ \E s \in DOMAIN xml, w \in WriteOutcomes : Call_ProcessXml(s, w)
    \/ \E s \in DOMAIN xml, w \in WriteOutcomes : TDF_Main(s, w)

SpecExtract == InitExtract /\ [][NextExtract]_vars

-----------------------------------------------------------------------------
(* Claims about the extraction routines, under SpecExtract *)

Routines == {"psx", "px", "tdf"}

\* the one document of the folder
TheDoc == xml["B.xml"]

\* the records of the well-formed Track elements, in document order
GoodRecords(doc) == Records(SelectSeq(doc.tracks, TrackOk))

\* the track columns of a frame's rows
TrackPart(f) == [i \in 1..Len(f.rows) |-> [c \in TrackCols |-> f.rows[i][c]]]

HasBadTrack(doc) == \E i \in DOMAIN doc.tracks : ~TrackOk(doc.tracks[i])

HasGoodTrack(doc) == \E i \in DOMAIN doc.tracks : TrackOk(doc.tracks[i])

\* C1: in each extraction routine, a Track element whose attribute text is
\* no number is skipped alone: called on a document that parses and holds
\* such a track beside well-formed ones, the routine does not raise and
\* emits the records of the well-formed tracks, in document order.
C1_PerTrackIsolation ==
    \A r \in Routines :
        (ret[r].called /\ TheDoc.wellformed /\ HasBadTrack(TheDoc) /\ HasGoodTrack(TheDoc))
            => (~ret[r].raised /\ TrackPart(ret[r].frame) = GoodRecords(TheDoc))

\* C2: in each extraction routine, a document that parses and yields no
\* track record does not make the summarizer raise: the frame is empty and
\* no per-file CSV is written.
C2_ZeroTrackPolicy ==
    \A r \in Routines :
        (ret[r].called /\ TheDoc.wellformed /\ GoodRecords(TheDoc) = <<>>)
            => (~ret[r].raised /\ ret[r].frame.rows = <<>> /\ ~ret[r].saved /\ disk = NoFiles)

\* the arithmetic mean of a non-empty sequence of floats, by IEEE 754: the
\* terms added in order, over their number; nan as soon as a term is nan
ArithMean(q) == FloatDivCount(EvalSum(AddInOrder(Leaf(Zero), q)), Len(q))

SentinelOrMean(q) == IF q = <<>> THEN Zero ELSE ArithMean(q)

\* the arithmetic mean of the terms that are not nan; nan when all are
MeanOfNumbers(q) ==
    IF SelectSeq(q, NotNaN) = <<>> THEN NaN ELSE ArithMean(SelectSeq(q, NotNaN))

SentinelOrMeanOfNumbers(q) == IF q = <<>> THEN Zero ELSE MeanOfNumbers(q)

SummaryOf(row) == [c \in Range(SummaryCols) |-> row[c]]

Answered(r) == ret[r].called /\ ~ret[r].raised /\ ret[r].frame.rows # <<>>

SameSummaries ==
    \A r1, r2 \in Routines :
        (Answered(r1) /\ Answered(r2)) =>
           /\ Len(ret[r1].frame.rows) = Len(ret[r2].frame.rows)
           /\ SummaryOf(ret[r1].frame.rows[1]) = SummaryOf(ret[r2].frame.rows[1])

\* C8, as claimed: for a document with at least one track record,
\* avg_speed_merging is 0.0 when no record has has_merging,
\* avg_speed_nonmerge is 0.0 when every record has it, and otherwise each is
\* the arithmetic mean of mean_speed over its subset; the three routines
\* give the same summary for the same document.
C8_EmptySubsetSentinel ==
    /\ \A r \in Routines :
          Answered(r) =>
             LET rows == ret[r].frame.rows
                 merg == Column(SelectSeq(rows, IsMerging), "mean_speed")
                 non  == Column(SelectSeq(rows, NotMerging), "mean_speed")
             IN  \A i \in DOMAIN rows :
                    /\ rows[i].avg_speed_merging = SentinelOrMean(merg)
                    /\ rows[i].avg_speed_nonmerge = SentinelOrMean(non)
    /\ SameSummaries

\* C8, amended: the same, with the mean taken over the mean_speed values of
\* the subset that are not nan, and nan when the subset is not empty and
\* all its values are nan.
C8_SentinelOrMeanOfNumbers ==
    /\ \A r \in Routines :
          Answered(r) =>
             LET rows == ret[r].frame.rows
                 merg == Column(SelectSeq(rows, IsMerging), "mean_speed")
                 non  == Column(SelectSeq(rows, NotMerging), "mean_speed")
             IN  \A i \in DOMAIN rows :
                    /\ rows[i].avg_speed_merging = SentinelOrMeanOfNumbers(merg)
                    /\ rows[i].avg_speed_nonmerge = SentinelOrMeanOfNumbers(non)
    /\ SameSummaries

\* all three routines have answered for a document of two merging tracks,
\* the first with the speed NaN: the merging mean is the speed of the
\* second and the sentinel is in the non-merging column
C8_Witness ==
    /\ \A r \in Routines : Answered(r)
    /\ TheDoc.tracks = <<NanSpeed, Merging>>
    /\ \A r \in Routines :
          /\ ret[r].frame.rows[1].avg_speed_merging = PyFloat("0.3")
          /\ ret[r].frame.rows[2].avg_speed_nonmerge = Zero

-----------------------------------------------------------------------------
(* Claims about the batch run of tracking_analysis.main, under SpecBatch *)

NFiles == Cardinality(DOMAIN xml)

Outcome(what) == {s \in DOMAIN log.res : log.res[s] = what}

BatchAccounts ==
    log.prog = "tracking_analysis" =>
       /\ DOMAIN log.res \cap Range(queue) = {}
       /\ DOMAIN log.res \cup Range(queue) = DOMAIN xml
       /\ Len(queue) = Cardinality(Range(queue))
       /\ done = Cardinality(Outcome("saved"))
       /\ skipped = Cardinality(DOMAIN log.res \ Outcome("saved"))
       /\ done + skipped + Len(queue) = NFiles
       /\ \A s \in Outcome("saved") :
             LET path == OutPathFor(s, DEFAULT_NAME_SUFFIX) IN
                path \in DOMAIN disk /\ disk[path] = CsvOf(PSX[xml[s]].frame)
       /\ out.status = "finished" => (queue = <<>> /\ done + skipped = NFiles)

\* C9: whatever the files and their outcomes (document that does not parse,
\* no track record, CSV not written, CSV written), a batch run takes every
\* file of the list once and ends; every file taken is counted in exactly
\* one of done, when its CSV is written, and skipped; at the end
\* done + skipped is the number of files.
C9_BatchAccounting == [](BatchAccounts) /\ ((pc = "ta_loop") ~> (out.status = "finished"))

\* a run has ended in which the first file's CSV could not be written and
\* the second file's was
C9_Witness ==
    /\ out = [prog |-> "tracking_analysis", status |-> "finished"]
    /\ log.res["A_summary2.xml"] = "save_failed"
    /\ log.res["B.xml"] = "saved"
    /\ done = 1
    /\ skipped = 1

-----------------------------------------------------------------------------
(* Claims about consolidation, under SpecSummary and Spec *)

\* the per-file tables of the folder whose names end in tail
PerFile(tail) == {n \in DOMAIN disk : EndsWith(n, tail)}

\* a table that can be read and has a data row
Usable(file) == file.readable /\ file.rows # <<>>

Complete(file) == \A c \in Range(SummaryCols) : c \in file.cols

\* a consolidation has just run, and no write of its table failed
Consolidated(prog) ==
    out.prog = prog /\ out.status \in {"saved", "raised", "no_files", "no_records"}

\* the consolidated rows that run wrote
RowsWritten(prog, path) ==
    IF out.prog = prog /\ out.status = "saved" THEN disk[path].rows ELSE <<>>

RowsNamed(rows, name) == {i \in DOMAIN rows : rows[i].filename = name}

\* the values a table gives to the summary columns: its first row's, the
\* null marker for a column it lacks
Representative(file) ==
    [c \in Range(SummaryCols) |-> IF c \in file.cols THEN file.rows[1][c] ELSE NA]

\* C3: the consolidated table has exactly one row for each per-file table
\* that can be read and has at least one row, and no other row.
C3_Cardinality ==
    /\ Consolidated("analysis_summary") =>
          LET rows == RowsWritten("analysis_summary", OUT_CSV_NAME)
              good == {f \in PerFile("_analysis.csv") : Usable(disk[f])}
          IN  /\ \A f \in good : Cardinality(RowsNamed(rows, PathStem(f))) = 1
              /\ Len(rows) = Cardinality(good)
    /\ Consolidated("summary") =>
          LET rows == RowsWritten("summary", EXCEL_NAME)
              good == {f \in PerFile("_summary.csv") : Usable(disk[f])}
          IN  /\ \A f \in good : Cardinality(RowsNamed(rows, AggBase(f))) = 1
              /\ Len(rows) = Cardinality(good)

\* C4: when every per-file table can be read and has a row, and one of them
\* lacks a summary column, the consolidation does not raise and every table
\* has its row, with the null marker in the columns it lacks and its own
\* values in the others.
C4_MissingColumn ==
    /\ (/\ Consolidated("analysis_summary")
        /\ \A f \in PerFile("_analysis.csv") : Usable(disk[f])
        /\ \E f \in PerFile("_analysis.csv") : ~Complete(disk[f]))
          => LET rows == RowsWritten("analysis_summary", OUT_CSV_NAME) IN
               /\ out.status = "saved"
               /\ \A f \in PerFile("_analysis.csv") :
                     \E i \in RowsNamed(rows, PathStem(f)) :
                        SummaryOf(rows[i]) = Representative(disk[f])
    /\ (/\ Consolidated("summary")
        /\ \A f \in PerFile("_summary.csv") : Usable(disk[f])
        /\ \E f \in PerFile("_summary.csv") : ~Complete(disk[f]))
          => LET rows == RowsWritten("summary", EXCEL_NAME) IN
               /\ out.status = "saved"
               /\ \A f \in PerFile("_summary.csv") :
                     \E i \in RowsNamed(rows, AggBase(f)) :
                        SummaryOf(rows[i]) = Representative(disk[f])

\* C5: when a per-file table cannot be read or has no data row, and the
\* tables that can be read lack no column, the consolidation does not raise;
\* the failing table has no row and every other table has its row.
C5_ErrorIsolation ==
    /\ (/\ Consolidated("analysis_summary")
        /\ \E f \in PerFile("_analysis.csv") : ~Usable(disk[f])
        /\ \A f \in PerFile("_analysis.csv") : Usable(disk[f]) => Complete(disk[f]))
          => LET rows == RowsWritten("analysis_summary", OUT_CSV_NAME) IN
               /\ out.status # "raised"
               /\ \A f \in PerFile("_analysis.csv") :
                     Cardinality(RowsNamed(rows, PathStem(f))) = IF Usable(disk[f]) THEN 1 ELSE 0
    /\ (/\ Consolidated("summary")
        /\ \E f \in PerFile("_summary.csv") : ~Usable(disk[f])
        /\ \A f \in PerFile("_summary.csv") : Usable(disk[f]) => Complete(disk[f]))
          => LET rows == RowsWritten("summary", EXCEL_NAME) IN
               /\ out.status # "raised"
               /\ \A f \in PerFile("_summary.csv") :
                     Cardinality(RowsNamed(rows, AggBase(f))) = IF Usable(disk[f]) THEN 1 ELSE 0

Ascending(rows) ==
    \A i, j \in DOMAIN rows : i < j => ~StrLess(rows[j].filename, rows[i].filename)

\* C6: the rows of every consolidated table written are in ascending order
\* of filename.
C6_RowOrder ==
    /\ OUT_CSV_NAME \in DOMAIN disk => Ascending(disk[OUT_CSV_NAME].rows)
    /\ EXCEL_NAME \in DOMAIN disk => Ascending(disk[EXCEL_NAME].rows)

\* <base> of a table named <base><tail>
BaseOf(name, tail) == SubSeq(name, 1, Len(name) - Len(tail))

\* C7: the consolidated table written from per-file tables that can all be
\* read, have a row and lack no column holds, for the table named
\* <base>_analysis.csv or <base>_summary.csv, a row whose filename is <base>.
C7_FilenameIdentity ==
    /\ (/\ out = [prog |-> "analysis_summary", status |-> "saved"]
        /\ \A f \in PerFile("_analysis.csv") : Usable(disk[f]) /\ Complete(disk[f]))
          => \A f \in PerFile("_analysis.csv") :
                RowsNamed(disk[OUT_CSV_NAME].rows, BaseOf(f, "_analysis.csv")) # {}
    /\ (/\ out = [prog |-> "summary", status |-> "saved"]
        /\ \A f \in PerFile("_summary.csv") : Usable(disk[f]) /\ Complete(disk[f]))
          => \A f \in PerFile("_summary.csv") :
                RowsNamed(disk[EXCEL_NAME].rows, BaseOf(f, "_summary.csv")) # {}

\* the files on disk that glob.glob lists for a pattern *<tail>
Visible(tail) == {n \in PerFile(tail) : ~StartsWith(n, ".")}

\* C10, as claimed: right after a consolidation that follows extraction
\* runs, the consolidated table holds a row for a file only if the latest
\* extraction run wrote that file's per-file table, and no row read back
\* from a consolidated table.
C10_OnlyLatestRun ==
    /\ (out = [prog |-> "analysis_summary", status |-> "saved"] /\ log.prog = "tracking_analysis") =>
          \A i \in DOMAIN disk[OUT_CSV_NAME].rows :
             \E s \in Outcome("saved") :
                disk[OUT_CSV_NAME].rows[i].filename = PathStem(OutPathFor(s, DEFAULT_NAME_SUFFIX))
    /\ out = [prog |-> "summary", status |-> "saved"] =>
          \A i \in DOMAIN disk[EXCEL_NAME].rows :
             \E s \in Outcome("saved") :
                disk[EXCEL_NAME].rows[i].filename = AggBase(SM_OutCsv(s))
    /\ out = [prog |-> "analysis_summary", status |-> "saved"] =>
          \A c \in {OUT_CSV_NAME, EXCEL_NAME} :
             RowsNamed(disk[OUT_CSV_NAME].rows, PathStem(c)) = {}
    /\ out = [prog |-> "summary", status |-> "saved"] =>
          \A c \in {OUT_CSV_NAME, EXCEL_NAME} :
             RowsNamed(disk[EXCEL_NAME].rows, AggBase(c)) = {}

\* C10, amended: a consolidated table holds a row only for a file of the
\* folder that its script's pattern lists (*_analysis.csv for
\* analysis_summary, *_summary.csv for summary.py), whichever run left the
\* file there; a consolidation that writes its table writes a row for every
\* readable file the pattern lists, the tables of earlier runs included.
\* Neither script lists its own consolidated table and analysis_summary
\* lists no consolidated table; summary.py lists tracking_summary.csv, the
\* table analysis_summary writes, and gives it the row "tracking".
C10_OnlyTablesOnDisk ==
    /\ OUT_CSV_NAME \in DOMAIN disk =>
          \A i \in DOMAIN disk[OUT_CSV_NAME].rows :
             \E f \in PerFile("_analysis.csv") \ {OUT_CSV_NAME, EXCEL_NAME} :
                disk[OUT_CSV_NAME].rows[i].filename = PathStem(f)
    /\ EXCEL_NAME \in DOMAIN disk =>
          \A i \in DOMAIN disk[EXCEL_NAME].rows :
             \E f \in Visible("_summary.csv") \ {EXCEL_NAME} :
                disk[EXCEL_NAME].rows[i].filename = AggBase(f)
    /\ out = [prog |-> "analysis_summary", status |-> "saved"] =>
          \A f \in PerFile("_analysis.csv") :
             disk[f].readable => RowsNamed(disk[OUT_CSV_NAME].rows, PathStem(f)) # {}
    /\ out = [prog |-> "summary", status |-> "saved"] =>
          /\ \A f \in Visible("_summary.csv") :
                /\ disk[f].readable
                /\ RowsNamed(disk[EXCEL_NAME].rows, AggBase(f)) # {}
          /\ OUT_CSV_NAME \in DOMAIN disk =>
                \E i \in RowsNamed(disk[EXCEL_NAME].rows, "tracking") :
                   SummaryOf(disk[EXCEL_NAME].rows[i]) = SummaryOf(disk[OUT_CSV_NAME].rows[1])

\* summary.py has just written its consolidated table in a run that failed
\* to write the file's per-file table: the table an earlier run left has its
\* row, and so has tracking_summary.csv, which analysis_summary left
C10_Witness ==
    /\ out = [prog |-> "summary", status |-> "saved"]
    /\ log.res["B.xml"] = "save_failed"
    /\ SM_OutCsv("B.xml") \in DOMAIN disk
    /\ disk[SM_OutCsv("B.xml")].readable
    /\ RowsNamed(disk[EXCEL_NAME].rows, "B") # {}
    /\ OUT_CSV_NAME \in DOMAIN disk
    /\ RowsNamed(disk[EXCEL_NAME].rows, "tracking") # {}

====
